---- MODULE Spec2Model ----
(***************************************************************************)
(* The per-transaction state transition of the EVM keeper                  *)
(* (Keeper.ApplyTransaction, Keeper.ApplyMessage,                          *)
(* Keeper.ApplyMessageWithConfig, Keeper.GetHashFn) as a state machine.    *)
(*                                                                         *)
(* The go-ethereum interpreter is an external engine: one run of           *)
(* evm.Call / evm.Create is an input record `vm` (error or not, gas        *)
(* handed back, refund counter, storage writes, logs).  The collaborators  *)
(* whose failure the code handles (EVMConfig, TransactionToMessage,        *)
(* StateDB.Commit, RefundGas, AddTransientGasUsed) fail when the input     *)
(* record says so.                                                         *)
(***************************************************************************)
EXTENDS Integers, Sequences, FiniteSets, TLC

VARIABLES
    params,         \* module parameters and fork rules read through cfg / the keeper
    ledger,         \* the KVStore behind ctx: the parent ledger
    transient,      \* transient store: block bloom, log size, tx index, gas used
    blockGasMeter,  \* ctx.BlockGasMeter(), possibly nil
    gasMeter,       \* ctx.GasMeter() of the running cosmos tx: gas consumed
    pc,             \* "idle", or "applied" while a cosmos tx has applied a message
    txCount,        \* transactions of the block handed to ApplyTransaction so far
    cumulative,     \* CumulativeGasUsed of the responses of this block, in order
    last,           \* the last call: its inputs, what it returned, the state it started from
    hashCtx,        \* the context GetHashFn closes over
    hashReq,        \* the height last passed to the hash function
    hashRes,        \* what the hash function returned for it
    ante            \* the last run of the signature verification stage

vars == <<params, ledger, transient, blockGasMeter, gasMeter, pc, txCount, cumulative,
          last, hashCtx, hashReq, hashRes, ante>>

---------------------------------------------------------------------------
(* Bounds of the model *)

\* width of the machine words the model stands uint64 / int64 on
UintBits == 20
\* transactions applied in one block
MaxTxs == 2
\* bytes of a common.Hash
HashLength == 2
\* highest block height of the hash contexts
MaxHeight == 3
\* bytes of an ethereum.Bloom
BloomByteLength == 2
\* messages of one cosmos transaction in the ante handler
MaxMsgs == 2

---------------------------------------------------------------------------
(* Program constants *)

\* params.TxGas, params.TxGasContractCreation, params.TxDataNonZeroGasEIP2028
TxGas == 21000
TxGasContractCreation == 53000
TxDataNonZeroGas == 16
\* params.RefundQuotient, params.RefundQuotientEIP3529
RefundQuotient == 2
RefundQuotientEIP3529 == 5
\* ethereum.ReceiptStatusFailed (the zero value), ethereum.ReceiptStatusSuccessful
ReceiptStatusFailed == 0
ReceiptStatusSuccessful == 1

---------------------------------------------------------------------------
(* Machine integers *)

UintMod == 2 ^ UintBits
MaxUint64 == UintMod - 1
MaxInt64 == (2 ^ (UintBits - 1)) - 1

\* uint64 addition and subtraction wrap around
UAdd(a, b) == (a + b) % UintMod
USub(a, b) == ((a - b) + UintMod) % UintMod

\* the Go conversion int64(x) of a uint64
ToInt64(x) == IF x > MaxInt64 THEN x - UintMod ELSE x

\* artela.SafeInt64: the conversion, refused when the value does not fit
SafeInt64(x) == [err |-> x > MaxInt64, value |-> IF x > MaxInt64 THEN 0 ELSE x]

Min(a, b) == IF a < b THEN a ELSE b

---------------------------------------------------------------------------
(* Errors *)

ErrNil == "nil"
ErrConfig == "failed to load evm config"
ErrMessage == "failed to return ethereum txs as core message"
ErrCreateDisabled == "ErrCreateDisabled"
ErrCallDisabled == "ErrCallDisabled"
ErrIntrinsicGasFailed == "intrinsic gas failed"
ErrIntrinsicGas == "ErrIntrinsicGas"
ErrGasOverflow == "ErrGasOverflow"
ErrCommit == "failed to commit stateDB"
ErrRefund == "failed to refund gas leftover gas to sender"
ErrTransientGas == "failed to add transient gas used"
ErrUnknownRequest == "invalid message type"
ErrInvalidChainID == "ErrInvalidChainID"
ErrorInvalidSigner == "couldn't retrieve sender address from the ethereum transaction"
ErrNext == "rejected by a later ante handler"
\* sdk Int.Uint64() panics on a negative value
Panic == "panic: Uint64() out of bounds"

---------------------------------------------------------------------------
(* Stores.  A store maps keys to values; a dirty set (the StateDB's journal, *)
(* a cache context's writes) is a function on the keys it wrote.            *)

Slots == {"slot1", "slot2"}
Keys == {"nonce", "balance"} \cup Slots

EmptyWrites == [k \in {} |-> 0]

\* StateDB.SetNonce on the sender
SetNonce(dirty, n) == ("nonce" :> n) @@ dirty

\* the interpreter's writes land in the StateDB on top of what is dirty already
VMWrites(dirty, vm) == vm.writes @@ dirty

\* StateDB.Commit: every dirty entry is written to the store of the context
\* the StateDB was opened on
StateDBCommit(dirty) == dirty

\* the commit function of ctx.CacheContext(): every write of the cache goes to
\* the parent store
WriteCache(cache, store) ==
    [k \in DOMAIN store |-> IF k \in DOMAIN cache THEN cache[k] ELSE store[k]]

---------------------------------------------------------------------------
(* Gas accounting *)

\* Keeper.GetEthIntrinsicGas (core.IntrinsicGas): base cost, creation
\* surcharge, cost of the data bytes; an error when the sum leaves uint64
GetEthIntrinsicGas(msg, contractCreation) ==
    LET base == IF contractCreation THEN TxGasContractCreation ELSE TxGas
        gas == base + (msg.data * TxDataNonZeroGas)
    IN  [err |-> gas > MaxUint64, gas |-> gas % UintMod]

\* a variant that picks the quotients the wrong way round
RefundQuotientSwapped(isLondon) == IF isLondon THEN RefundQuotient ELSE RefundQuotientEIP3529
\* refundQuotient: params.RefundQuotient, or params.RefundQuotientEIP3529 when
\* London is active
RefundQuotientFor(isLondon) == IF isLondon THEN RefundQuotientEIP3529 ELSE RefundQuotient

\* GasToRefund: the refund counter capped at gasConsumed / refundQuotient
GasToRefund(availableRefund, gasConsumed, refundQuotient) ==
    LET refund == gasConsumed \div refundQuotient
    IN  IF refund > availableRefund THEN availableRefund ELSE refund

\* what evm.Call / evm.Create hand back of the gas they were given: what the
\* run did not use, or, from a faulty engine, more than the message's limit
VMGasLeft(vm, gas, gasLimit) ==
    IF vm.fault THEN UAdd(gasLimit, 1) ELSE gas - Min(vm.used, gas)

\* Dec.TruncateInt of the decimal num / den: towards zero
TruncateInt(num, den) ==
    IF num >= 0 THEN num \div den ELSE 0 - ((0 - num) \div den)

\* gasUsed of the response: MaxDec(gasLimit * minGasMultiplier, temporaryGasUsed),
\* truncated.  NewDec takes int64(gasLimit) and int64(temporaryGasUsed);
\* Uint64() panics on a negative value.
MinimumGasUsedNum(gasLimit, mult) == ToInt64(gasLimit) * mult.num
\* a variant that charges the floor on top of the usage
GasUsedSum(gasLimit, temporaryGasUsed, mult) ==
    LET minNum == MinimumGasUsedNum(gasLimit, mult)
        used == ToInt64(temporaryGasUsed)
        truncated == TruncateInt(minNum + (used * mult.den), mult.den)
    IN  [panic |-> truncated < 0, value |-> IF truncated < 0 THEN 0 ELSE truncated]
\* a variant that takes the smaller of the two
GasUsedMin(gasLimit, temporaryGasUsed, mult) ==
    LET minNum == MinimumGasUsedNum(gasLimit, mult)
        used == ToInt64(temporaryGasUsed)
        truncated == IF minNum < used * mult.den
                     THEN TruncateInt(minNum, mult.den)
                     ELSE used
    IN  [panic |-> truncated < 0, value |-> IF truncated < 0 THEN 0 ELSE truncated]
GasUsed(gasLimit, temporaryGasUsed, mult) ==
    LET minNum == MinimumGasUsedNum(gasLimit, mult)
        used == ToInt64(temporaryGasUsed)
        \* MaxDec(d1, d2): d2 when d1 < d2, else d1
        truncated == IF minNum < used * mult.den
                     THEN used
                     ELSE TruncateInt(minNum, mult.den)
    IN  [panic |-> truncated < 0, value |-> IF truncated < 0 THEN 0 ELSE truncated]

---------------------------------------------------------------------------
(* Keeper.ApplyMessageWithConfig *)

Nil == "nil"

NoExec ==
    [err |-> ErrNil, vmRan |-> FALSE, committed |-> FALSE, written |-> EmptyWrites,
     stateDB |-> EmptyWrites, gasUsed |-> 0, vmError |-> FALSE, logs |-> <<>>,
     intrinsicGas |-> 0, gasBeforeRefund |-> 0, refund |-> 0, refundQuotient |-> 0,
     temporaryGasUsed |-> 0, leftoverGas |-> 0]

\* a variant that leaves the nonce to the run
RunCreateLeavingNonce(msg, vm) == VMWrites(SetNonce(EmptyWrites, msg.nonce), vm)
\* the sender's nonce around evm.Create: reset to msg.Nonce, the run, then
\* msg.Nonce + 1 whatever the result
RunCreate(msg, vm) ==
    SetNonce(VMWrites(SetNonce(EmptyWrites, msg.nonce), vm), UAdd(msg.nonce, 1))

RunCall(msg, vm) == VMWrites(EmptyWrites, vm)

\* a variant that reads the flag of calls for creations
CreateDisabledByCallFlag(p, msg) == ~p.enableCall /\ msg.to = Nil
\* !cfg.Params.EnableCreate && msg.To == nil
CreateDisabled(p, msg) == ~p.enableCreate /\ msg.to = Nil
\* !cfg.Params.EnableCall && msg.To != nil
CallDisabled(p, msg) == ~p.enableCall /\ msg.to # Nil

\* a variant that compares the gas limit with the floor of a plain call
BelowGasOfCall(leftoverGas, intrinsicGas) == leftoverGas < TxGas
\* leftoverGas < intrinsicGas, leftoverGas being msg.GasLimit
BelowIntrinsicGas(leftoverGas, intrinsicGas) == leftoverGas < intrinsicGas

\* a variant that lets through a leftover one above the limit
GasOverflowOffByOne(gasLimit, leftoverGas) == gasLimit + 1 < leftoverGas
\* msg.GasLimit < leftoverGas
GasOverflow(gasLimit, leftoverGas) == gasLimit < leftoverGas

\* a variant that commits the StateDB whatever the commit parameter says
CommitStateDBAlways(commit, stateDB) == StateDBCommit(stateDB)
\* if commit { stateDB.Commit() }: what reaches the store of ctx; without
\* commit the dirty state of the StateDB is dropped on return
CommitStateDB(commit, stateDB) == IF commit THEN StateDBCommit(stateDB) ELSE EmptyWrites

\* the result of ApplyMessageWithConfig(ctx, msg, tracer, commit, cfg, txConfig):
\* err is the returned error (ErrNil with a response), written is what
\* StateDB.Commit wrote to the store of ctx
ApplyMessageWithConfig(msg, commit, p, vm, commitOk) ==
    LET contractCreation == msg.to = Nil
        intrinsic == GetEthIntrinsicGas(msg, contractCreation)
    IN
    IF CreateDisabled(p, msg) THEN [NoExec EXCEPT !.err = ErrCreateDisabled]
    ELSE IF CallDisabled(p, msg) THEN [NoExec EXCEPT !.err = ErrCallDisabled]
    ELSE IF intrinsic.err THEN [NoExec EXCEPT !.err = ErrIntrinsicGasFailed]
    ELSE IF BelowIntrinsicGas(msg.gasLimit, intrinsic.gas)
         THEN [NoExec EXCEPT !.err = ErrIntrinsicGas, !.intrinsicGas = intrinsic.gas]
    ELSE
    LET gas == USub(msg.gasLimit, intrinsic.gas)
        stateDB == IF contractCreation THEN RunCreate(msg, vm) ELSE RunCall(msg, vm)
        vmLeft == VMGasLeft(vm, gas, msg.gasLimit)
        refundQuotient == RefundQuotientFor(p.london)
        ran == [NoExec EXCEPT !.vmRan = TRUE, !.stateDB = stateDB,
                              !.intrinsicGas = intrinsic.gas,
                              !.refundQuotient = refundQuotient]
    IN
    IF GasOverflow(msg.gasLimit, vmLeft)
    THEN [ran EXCEPT !.err = ErrGasOverflow, !.leftoverGas = vmLeft]
    ELSE
    LET gasBeforeRefund == USub(msg.gasLimit, vmLeft)
        refund == GasToRefund(vm.refund, gasBeforeRefund, refundQuotient)
        leftoverGas == UAdd(vmLeft, refund)
        temporaryGasUsed == USub(gasBeforeRefund, refund)
        measured == [ran EXCEPT !.gasBeforeRefund = gasBeforeRefund, !.refund = refund,
                                !.temporaryGasUsed = temporaryGasUsed,
                                !.leftoverGas = leftoverGas, !.vmError = vm.err]
    IN
    IF commit /\ ~commitOk THEN [measured EXCEPT !.err = ErrCommit]
    ELSE
    LET stored == [measured EXCEPT !.committed = commit,
                                   !.written = CommitStateDB(commit, stateDB)]
        gasUsed == GasUsed(msg.gasLimit, temporaryGasUsed, p.mult)
    IN
    IF GasOverflow(msg.gasLimit, leftoverGas) THEN [stored EXCEPT !.err = ErrGasOverflow]
    ELSE IF gasUsed.panic THEN [stored EXCEPT !.err = Panic]
    ELSE [stored EXCEPT !.gasUsed = gasUsed.value,
                        !.leftoverGas = USub(msg.gasLimit, gasUsed.value),
                        !.logs = vm.logs]

---------------------------------------------------------------------------
(* Blooms.  A big.Int is a natural number, a byte holds one bit, a Bloom is  *)
(* BloomByteLength bytes, big-endian.  A log is the topic it carries; topic  *)
(* i sets byte i of the bloom.                                               *)

Topics == 1..BloomByteLength

RECURSIVE BigSetBytes(_)
\* big.Int.SetBytes: the number a big-endian byte sequence spells
BigSetBytes(b) ==
    IF Len(b) = 0 THEN 0
    ELSE (2 * BigSetBytes(SubSeq(b, 1, Len(b) - 1))) + b[Len(b)]

Bit(x, i) == (x \div (2 ^ i)) % 2

BitLen(x) == CHOOSE n \in 0..(BloomByteLength + 1) :
                /\ x < 2 ^ n
                /\ (n = 0 \/ x >= 2 ^ (n - 1))

\* big.Int.Bytes: big-endian, no leading zero byte
BigBytes(x) == [i \in 1..BitLen(x) |-> Bit(x, BitLen(x) - i)]

\* a variant that keeps only the second operand
BigOrOverwrites(x, y) == y
\* big.Int.Or
BigOr(x, y) ==
    BigSetBytes([i \in 1..BloomByteLength |->
        IF Bit(x, BloomByteLength - i) = 1 \/ Bit(y, BloomByteLength - i) = 1
        THEN 1 ELSE 0])

\* ethereum.LogsBloom: the bloom bytes of a list of logs
LogsBloom(logs) ==
    [i \in 1..BloomByteLength |-> IF \E j \in 1..Len(logs) : logs[j] = i THEN 1 ELSE 0]

\* ethereum.BytesToBloom: the bytes, left-padded to BloomByteLength
BytesToBloom(b) ==
    [i \in 1..BloomByteLength |->
        IF i <= BloomByteLength - Len(b) THEN 0 ELSE b[i - (BloomByteLength - Len(b))]]

\* Bloom.Big
BloomBig(bloom) == BigSetBytes(bloom)

EmptyBloom == [i \in 1..BloomByteLength |-> 0]

---------------------------------------------------------------------------
(* Keeper.ApplyTransaction *)

\* Keeper.TxConfig: the indexes of the transaction and of its first log are
\* the transient counters of the block
TxConfig(tr) == [txIndex |-> tr.txIndex, logIndex |-> tr.logSize]

\* a variant that takes every executed transaction for a success
ResNeverFailed(exec) == FALSE
\* res.Failed(): the VM reported an error
ResFailed(exec) == exec.vmError

\* cumulativeGasUsed of the receipt: the gas of this transaction on top of what
\* the block gas meter has consumed, capped at the meter's limit when the
\* context has a block gas meter
CumulativeGasUsed(gasUsed, bgm) ==
    IF bgm.present
    THEN IF UAdd(gasUsed, bgm.consumed) > bgm.limit
         THEN bgm.limit
         ELSE UAdd(gasUsed, bgm.consumed)
    ELSE gasUsed

\* Keeper.RefundGas: credits the leftover gas, at the gas price of the model
\* (one unit of the fee denomination), to the sender, or fails
RefundGas(store, leftoverGas, ok) ==
    [err |-> ~ok,
     store |-> IF ok THEN [store EXCEPT !["balance"] = @ + leftoverGas] ELSE store]

\* Keeper.AddTransientGasUsed: adds to the transient gas total and returns it,
\* or fails
AddTransientGasUsed(tr, gasUsed, ok) ==
    [err |-> ~ok,
     total |-> IF ok THEN tr.gasUsed + gasUsed ELSE 0,
     transient |-> IF ok THEN [tr EXCEPT !.gasUsed = @ + gasUsed] ELSE tr]

\* Keeper.ResetGasMeterAndConsumeGas: the gas meter of the cosmos transaction
\* is reset and charged with the amount
ResetGasMeterAndConsumeGas(gm, amount) == amount

\* a variant that charges the meter with the gas of this message only
ConsumedGasOfMessage(totalGasUsed, gasUsed) == gasUsed
\* the amount ApplyTransaction hands to ResetGasMeterAndConsumeGas: the total
\* AddTransientGasUsed returned
ConsumedGas(totalGasUsed, gasUsed) == totalGasUsed

NoResponse ==
    [returned |-> FALSE, gasUsed |-> 0, vmError |-> FALSE, logs |-> <<>>,
     cumulativeGasUsed |-> 0]

NoReceipt ==
    [built |-> FALSE, status |-> ReceiptStatusFailed, cumulativeGasUsed |-> 0,
     bloom |-> EmptyBloom, logs |-> <<>>, gasUsed |-> 0, transactionIndex |-> 0,
     contractCreated |-> FALSE]

TxOutcome(err, exec, res, receipt, commits, store, tr, gm) ==
    [err |-> err, exec |-> exec, res |-> res, receipt |-> receipt, commits |-> commits,
     ledger |-> store, transient |-> tr, gasMeter |-> gm]

\* a variant that has advanced the transaction index before the early return
AbortAfterIndex(err, exec, store, tr, gm) ==
    TxOutcome(err, exec, NoResponse, NoReceipt, 0, store,
              [tr EXCEPT !.txIndex = UAdd(@, 1)], gm)
\* return nil, err before the receipt is built: nothing of ctx has been touched
Abort(err, exec, store, tr, gm) ==
    TxOutcome(err, exec, NoResponse, NoReceipt, 0, store, tr, gm)

\* a variant that leaves one storage slot of the cache out
CommitPartial(cache, store) ==
    [k \in DOMAIN store |->
        IF k \in DOMAIN cache /\ k # "slot2" THEN cache[k] ELSE store[k]]
\* the commit function of the cache context, called for a transaction that
\* did not fail
Commit(cache, store) == WriteCache(cache, store)

\* ApplyTransaction(ctx, tx) on the store, transient store and meters of ctx:
\* the returned error, response and receipt, and the store, transient store
\* and gas meter it leaves
ApplyTransactionResult(in, store, tr, bgm, gm, p) ==
    IF ~in.cfgOk
    THEN Abort(ErrConfig, NoExec, store, tr, gm)
    ELSE IF ~in.msgOk
    THEN Abort(ErrMessage, NoExec, store, tr, gm)
    ELSE
    LET txConfig == TxConfig(tr)
        \* tmpCtx, commit = ctx.CacheContext(): the StateDB commits into the cache
        exec == ApplyMessageWithConfig(in.msg, TRUE, p, in.vm, in.commitOk)
        cache == exec.written
    IN
    IF exec.err # ErrNil
    THEN Abort(exec.err, exec, store, tr, gm)
    ELSE
    LET logs == exec.logs
        bloomReceipt ==
            IF Len(logs) > 0
            THEN BytesToBloom(BigBytes(BigOr(tr.bloom, BigSetBytes(LogsBloom(logs)))))
            ELSE EmptyBloom
        cumulativeGasUsed == CumulativeGasUsed(exec.gasUsed, bgm)
        failed == ResFailed(exec)
        receipt ==
            [built |-> TRUE,
             status |-> IF failed THEN ReceiptStatusFailed ELSE ReceiptStatusSuccessful,
             cumulativeGasUsed |-> cumulativeGasUsed,
             bloom |-> bloomReceipt, logs |-> logs, gasUsed |-> exec.gasUsed,
             transactionIndex |-> txConfig.txIndex,
             contractCreated |-> in.msg.to = Nil]
        res == [returned |-> TRUE, gasUsed |-> exec.gasUsed, vmError |-> exec.vmError,
                logs |-> logs, cumulativeGasUsed |-> cumulativeGasUsed]
        commits == IF failed THEN 0 ELSE 1
        committed == IF failed THEN store ELSE Commit(cache, store)
        refunded == RefundGas(committed, USub(in.msg.gasLimit, exec.gasUsed), in.refundOk)
    IN
    IF refunded.err
    THEN TxOutcome(ErrRefund, exec, NoResponse, receipt, commits, committed, tr, gm)
    ELSE
    LET withLogs ==
            IF Len(receipt.logs) > 0
            THEN [tr EXCEPT !.bloom = BloomBig(receipt.bloom),
                            !.logSize = UAdd(txConfig.logIndex, Len(receipt.logs))]
            ELSE tr
        withIndex == [withLogs EXCEPT !.txIndex = UAdd(txConfig.txIndex, 1)]
        added == AddTransientGasUsed(withIndex, exec.gasUsed, in.addOk)
    IN
    IF added.err
    THEN TxOutcome(ErrTransientGas, exec, NoResponse, receipt, commits,
                   refunded.store, withIndex, gm)
    ELSE TxOutcome(ErrNil, exec, res, receipt, commits,
                   refunded.store, added.transient,
                   ResetGasMeterAndConsumeGas(gm, ConsumedGas(added.total, exec.gasUsed)))

---------------------------------------------------------------------------
(* Keeper.GetHashFn *)

ZeroHash == [i \in 1..HashLength |-> 0]

\* common.BytesToHash: the last HashLength bytes, left-padded with zeros
BytesToHash(b) ==
    LET cropped == IF Len(b) > HashLength
                   THEN SubSeq(b, (Len(b) - HashLength) + 1, Len(b))
                   ELSE b
    IN  [i \in 1..HashLength |->
            IF i <= HashLength - Len(cropped) THEN 0
            ELSE cropped[i - (HashLength - Len(cropped))]]

\* cometbft Header.Hash: nil for a header without validators hash, else the digest
HeaderHash(header) == IF header.validators THEN header.digest ELSE <<>>

\* a variant that answers a height above the current one with the header hash
\* of the context
GetHashOfFuture(ctx, height) ==
    IF SafeInt64(height).err THEN ZeroHash
    ELSE IF ctx.blockHeight <= SafeInt64(height).value
    THEN BytesToHash(ctx.headerHash)
    ELSE ZeroHash
\* the function GetHashFn(ctx) returns, applied to height
GetHashFn(ctx, height) ==
    LET h == SafeInt64(height)
    IN
    IF h.err THEN ZeroHash
    ELSE IF ctx.blockHeight = h.value
    THEN \* case 1: the header hash of the context, recomputed if not set
         IF Len(ctx.headerHash) # 0 THEN BytesToHash(ctx.headerHash)
         ELSE IF ~ctx.header.decodable THEN ZeroHash
         ELSE BytesToHash(HeaderHash(ctx.header))
    ELSE IF ctx.blockHeight > h.value
    THEN \* case 2: the historical info of the staking keeper
         LET histInfo == ctx.hist[h.value]
         IN  IF ~histInfo.found THEN ZeroHash
             ELSE IF ~histInfo.header.decodable THEN ZeroHash
             ELSE BytesToHash(HeaderHash(histInfo.header))
    ELSE \* case 3: a height above the current one
         ZeroHash

---------------------------------------------------------------------------
(* EthSigVerificationDecorator.AnteHandle.  A message of the cosmos          *)
(* transaction is an Ethereum message or not; an Ethereum message carries    *)
(* the chain id it was signed for, whether its signature recovers, the       *)
(* address that signed it and the From field it arrived with.  The value     *)
(* the context holds under AspectContextKey names the message whose          *)
(* transaction it wraps, by its position in the transaction; 0 is no value.  *)

\* the chain id of the chain configuration
ChainID == 1

Addresses == {1, 2}

\* common.Address.Hex: the address as a 0x string
Hex(address) == <<"0x", address>>

\* a variant that takes every message for an Ethereum message
AnyMsgIsEthereumTx(msg) == TRUE
\* the type assertion msg.(*txs.MsgEthereumTx)
IsMsgEthereumTx(msg) == msg.eth

\* Keeper.VerifySig: the signer recovered under the chain id of the
\* configuration, or an error
VerifySig(msg) ==
    IF msg.chainID # ChainID
    THEN [sender |-> 0, err |-> ErrInvalidChainID]
    ELSE IF ~msg.validSig
    THEN [sender |-> 0, err |-> ErrorInvalidSigner]
    ELSE [sender |-> msg.signer, err |-> ErrNil]

NoAspectContext == [ethTx |-> 0]

\* NewAspectRuntimeContext with the EthTxContext of the i-th message set
NewAspectRuntimeContext(i) == [ethTx |-> i]

\* a variant that returns the context it was given
WithValueDropped(ctx, aspectCtx) == ctx
\* ctx.WithValue(types.AspectContextKey, aspectCtx)
WithValue(ctx, aspectCtx) == aspectCtx

\* the loop over tx.GetMsgs() from the i-th message on; ctx is the value of
\* the context under AspectContextKey.  The result is what the loop leaves:
\* the error it returned, if any, the context and the messages
RECURSIVE VerifyMsgs(_, _, _)
VerifyMsgs(msgs, i, ctx) ==
    IF i > Len(msgs)
    THEN [err |-> ErrNil, ctx |-> ctx, msgs |-> msgs]
    ELSE IF ~IsMsgEthereumTx(msgs[i])
    THEN [err |-> ErrUnknownRequest, ctx |-> ctx, msgs |-> msgs]
    ELSE LET scoped == WithValue(ctx, NewAspectRuntimeContext(i))
             sig == VerifySig(msgs[i])
         IN  IF sig.err # ErrNil
             THEN [err |-> sig.err, ctx |-> scoped, msgs |-> msgs]
             ELSE VerifyMsgs([msgs EXCEPT ![i].from = Hex(sig.sender)], i + 1, scoped)

NoAnte == [ran |-> FALSE, tx |-> <<>>, mode |-> "deliver", simulate |-> FALSE,
           err |-> ErrNil, nextRan |-> FALSE, returned |-> ErrNil,
           ctx |-> NoAspectContext, msgs |-> <<>>, preLedger |-> [k \in Keys |-> 0]]

---------------------------------------------------------------------------
(* Inputs *)

\* a run of the interpreter.  A run that ends in an error has reverted its
\* writes and logs; a faulty engine hands back more gas than the limit.
VMRun(err, fault, used, refund, writes, logs) ==
    [err |-> err, fault |-> fault, used |-> used, refund |-> refund,
     writes |-> writes, logs |-> logs]

Message(to, gasLimit, nonce, data) ==
    [to |-> to, gasLimit |-> gasLimit, nonce |-> nonce, data |-> data]

AllOk == [cfgOk |-> TRUE, msgOk |-> TRUE, commitOk |-> TRUE, refundOk |-> TRUE,
          addOk |-> TRUE]

Input(msg, vm, env) ==
    [cfgOk |-> env.cfgOk, msgOk |-> env.msgOk, commitOk |-> env.commitOk,
     refundOk |-> env.refundOk, addOk |-> env.addOk, msg |-> msg, vm |-> vm]

NoInput == Input(Message(Nil, 0, 0, 0), VMRun(FALSE, FALSE, 0, 0, EmptyWrites, <<>>), AllOk)

\* gas limits: what a plain call needs, an odd limit above what a creation
\* needs, and a limit that does not fit int64
SmallGasLimit == TxGas
OddGasLimit == TxGasContractCreation + 7001
HugeGasLimit == MaxInt64 + 1 + OddGasLimit

---------------------------------------------------------------------------
(* State *)

\* minimum gas multipliers: 0, 0.5, 1
Zero == [num |-> 0, den |-> 1]
Half == [num |-> 1, den |-> 2]
One == [num |-> 1, den |-> 1]

Params(enableCreate, enableCall, london, mult) ==
    [enableCreate |-> enableCreate, enableCall |-> enableCall, london |-> london,
     mult |-> mult]

NoHeader == [decodable |-> FALSE, validators |-> FALSE, digest |-> <<>>]
NoHashCtx == [blockHeight |-> 0, headerHash |-> <<>>, header |-> NoHeader,
              hist |-> [h \in 0..(MaxHeight - 1) |-> [found |-> FALSE, header |-> NoHeader]]]

NoCall == [op |-> "none", in |-> NoInput, commit |-> FALSE, err |-> ErrNil,
           exec |-> NoExec, res |-> NoResponse, receipt |-> NoReceipt, commits |-> 0,
           preLedger |-> [k \in Keys |-> 0],
           preTransient |-> [bloom |-> 0, logSize |-> 0, txIndex |-> 0, gasUsed |-> 0],
           preMeter |-> [present |-> FALSE, limit |-> 0, consumed |-> 0]]

\* the start of a block: an empty transient store, a ledger whose storage is
\* clear, the block gas meter of the context if it has one
InitWith(p, meters) ==
    /\ params \in p
    /\ ledger = [k \in Keys |-> 0]
    /\ transient = [bloom |-> 0, logSize |-> 0, txIndex |-> 0, gasUsed |-> 0]
    /\ blockGasMeter \in meters
    /\ gasMeter = 0
    /\ pc = "idle"
    /\ txCount = 0
    /\ cumulative = <<>>
    /\ last = NoCall
    /\ hashCtx = NoHashCtx
    /\ hashReq = 0
    /\ hashRes = ZeroHash
    /\ ante = NoAnte

---------------------------------------------------------------------------
(* Actions *)

\* the message handler calls ApplyTransaction for an Ethereum message of the
\* current cosmos transaction, the first one (pc = "idle") or a later one
ApplyTransaction(in) ==
    /\ pc \in {"idle", "applied"}
    /\ txCount < MaxTxs
    /\ txCount' = txCount + 1
    /\ \E out \in {ApplyTransactionResult(in, ledger, transient, blockGasMeter,
                                          gasMeter, params)} :
           /\ ledger' = out.ledger
           /\ transient' = out.transient
           /\ gasMeter' = out.gasMeter
           /\ cumulative' = IF out.err = ErrNil
                            THEN Append(cumulative, out.res.cumulativeGasUsed)
                            ELSE cumulative
           /\ last' = [op |-> "ApplyTransaction", in |-> in, commit |-> TRUE,
                       err |-> out.err, exec |-> out.exec, res |-> out.res,
                       receipt |-> out.receipt, commits |-> out.commits,
                       preLedger |-> ledger, preTransient |-> transient,
                       preMeter |-> blockGasMeter]
    /\ pc' = "applied"
    /\ UNCHANGED <<params, blockGasMeter, hashCtx, hashReq, hashRes, ante>>

\* at the end of a cosmos transaction the block gas meter is charged with what
\* the gas meter of the transaction has consumed, and the next transaction
\* starts on a fresh gas meter
ConsumeBlockGas ==
    /\ pc = "applied"
    /\ blockGasMeter' = IF blockGasMeter.present
                        THEN [blockGasMeter EXCEPT !.consumed = UAdd(@, gasMeter)]
                        ELSE blockGasMeter
    /\ gasMeter' = 0
    /\ pc' = "idle"
    /\ UNCHANGED <<params, ledger, transient, txCount, cumulative, last, hashCtx,
                   hashReq, hashRes, ante>>

\* ApplyMessage(ctx, msg, tracer, commit): eth_call, eth_estimateGas, a native
\* module
ApplyMessage(in, commit) ==
    /\ pc = "idle"
    /\ \E exec \in {IF in.cfgOk
                    THEN ApplyMessageWithConfig(in.msg, commit, params, in.vm, in.commitOk)
                    ELSE [NoExec EXCEPT !.err = ErrConfig]} :
           /\ ledger' = WriteCache(exec.written, ledger)
           /\ last' = [op |-> "ApplyMessage", in |-> in, commit |-> commit,
                       err |-> exec.err, exec |-> exec,
                       res |-> IF exec.err = ErrNil
                               THEN [returned |-> TRUE, gasUsed |-> exec.gasUsed,
                                     vmError |-> exec.vmError, logs |-> exec.logs,
                                     cumulativeGasUsed |-> 0]
                               ELSE NoResponse,
                       receipt |-> NoReceipt, commits |-> 0,
                       preLedger |-> ledger, preTransient |-> transient,
                       preMeter |-> blockGasMeter]
    /\ UNCHANGED <<params, transient, blockGasMeter, gasMeter, pc, txCount, cumulative,
                   hashCtx, hashReq, hashRes, ante>>

\* the ante chain reaches the signature verification stage with the messages
\* tx of a cosmos transaction, in CheckTx, ReCheckTx or DeliverTx, simulating
\* or not; next is the rest of the chain: the error it returns and what it
\* writes to the store when it does not fail.  The stage runs once on a
\* transaction of a validation path
AnteHandle(tx, mode, simulate, next) ==
    /\ ~ante.ran
    /\ \E out \in {VerifyMsgs(tx, 1, NoAspectContext)} :
           /\ ledger' = IF out.err = ErrNil /\ next.err = ErrNil
                         THEN WriteCache(next.writes, ledger)
                         ELSE ledger
           /\ ante' = [ran |-> TRUE, tx |-> tx, mode |-> mode, simulate |-> simulate,
                       err |-> out.err, nextRan |-> out.err = ErrNil,
                       returned |-> IF out.err = ErrNil THEN next.err ELSE out.err,
                       ctx |-> out.ctx, msgs |-> out.msgs, preLedger |-> ledger]
    /\ UNCHANGED <<params, transient, blockGasMeter, gasMeter, pc, txCount, cumulative,
                   last, hashCtx, hashReq, hashRes>>

\* the interpreter asks for the hash of a block
GetHash(height) ==
    /\ hashReq' = height
    /\ hashRes' = GetHashFn(hashCtx, height)
    /\ UNCHANGED <<params, ledger, transient, blockGasMeter, gasMeter, pc, txCount,
                   cumulative, last, hashCtx, ante>>

---------------------------------------------------------------------------
(* Specifications.  Each draws the inputs of its actions from the cases its  *)
(* properties are about.                                                    *)

BlockGasLimit == 5 * TxGas

Meter == [present |-> TRUE, limit |-> BlockGasLimit, consumed |-> 0]
NilMeter == [present |-> FALSE, limit |-> 0, consumed |-> 0]

\* collaborators that fail: StateDB.Commit, RefundGas, AddTransientGasUsed,
\* EVMConfig, TransactionToMessage
CommitFails == [AllOk EXCEPT !.commitOk = FALSE]
RefundFails == [AllOk EXCEPT !.refundOk = FALSE]
AddFails == [AllOk EXCEPT !.addOk = FALSE]
EarlyFailures ==
    {Input(NoInput.msg, NoInput.vm, [AllOk EXCEPT !.cfgOk = FALSE]),
     Input(NoInput.msg, NoInput.vm, [AllOk EXCEPT !.msgOk = FALSE])}

\* runs of the engine: one that hands back more gas than the limit, one that
\* reverts after using all its gas or none, one that writes storage, one that
\* emits a log
FaultyRun == VMRun(FALSE, TRUE, 0, 0, EmptyWrites, <<>>)
FaultyRevertedRun == VMRun(TRUE, TRUE, 0, 0, EmptyWrites, <<>>)
RevertedRun == VMRun(TRUE, FALSE, MaxUint64, 0, EmptyWrites, <<>>)
EarlyRevertedRun == VMRun(TRUE, FALSE, 0, 0, EmptyWrites, <<>>)
WritingRun(w) == VMRun(FALSE, FALSE, 0, 0, w, <<>>)
LoggingRun(w, used, topic) == VMRun(FALSE, FALSE, used, 0, w, <<topic>>)
AllSlots == [s \in Slots |-> 1]

\* Spec: the transactions of a block, creations and calls, with runs that
\* write storage, revert, or come from a faulty engine, and collaborators that
\* fail.  The gas limit of a transaction is available in the block (precheck
\* 3 of the ante handler), so it fits int64.
TxMsgs ==
    {Message(Nil, OddGasLimit, n, 0) : n \in {0, 1}}
    \cup {Message("contract", OddGasLimit, 0, 0)}
TxRuns ==
    {RevertedRun, EarlyRevertedRun, FaultyRun, FaultyRevertedRun}
    \cup {WritingRun(w) : w \in {EmptyWrites, AllSlots}}
    \cup {LoggingRun(AllSlots, MaxUint64, 1)}
    \cup {LoggingRun(EmptyWrites, 0, topic) : topic \in Topics}
TxInputs ==
    {Input(m, v, AllOk) : m \in TxMsgs, v \in TxRuns}
    \cup {Input(m, v, RefundFails) : m \in TxMsgs, v \in {RevertedRun, WritingRun(AllSlots)}}
    \cup {Input(m, WritingRun(AllSlots), e) : m \in TxMsgs, e \in {CommitFails, AddFails}}
    \cup EarlyFailures

Init ==
    InitWith({Params(TRUE, TRUE, TRUE, m) : m \in {Zero, Half}}
                 \cup {Params(FALSE, TRUE, TRUE, Half), Params(TRUE, FALSE, TRUE, Half)},
             {Meter, NilMeter})

Next ==
    \/ \E in \in TxInputs : ApplyTransaction(in)
    \/ ConsumeBlockGas

Spec == Init /\ [][Next]_vars

---------------------------------------------------------------------------
\* GasSpec: direct calls of the message executor, committing or not, over gas
\* limits, gas used by the run and refund counters, on both sides of London
\* and for each minimum gas multiplier

PartUsed == TxGas \div 2
SmallRefund == TxGas \div 10

GasMsgs ==
    {Message(to, g, 0, 0) : to \in {Nil, "contract"},
                            g \in {SmallGasLimit, OddGasLimit, HugeGasLimit}}
    \cup {Message("contract", SmallGasLimit, 0, 1)}
\* a run that reverts has reverted its refund counter with its writes
GasRuns ==
    {VMRun(FALSE, FALSE, u, r, AllSlots, <<>>) :
        u \in {0, PartUsed, MaxUint64}, r \in {0, SmallRefund, MaxUint64}}
    \cup {VMRun(TRUE, FALSE, u, 0, EmptyWrites, <<>>) : u \in {0, PartUsed, MaxUint64}}
    \cup {FaultyRun, WritingRun(EmptyWrites), LoggingRun(EmptyWrites, PartUsed, 1)}
GasInputs ==
    {Input(m, v, AllOk) : m \in GasMsgs, v \in GasRuns}
    \cup {Input(NoInput.msg, NoInput.vm, [AllOk EXCEPT !.cfgOk = FALSE])}

GasInit ==
    InitWith({Params(TRUE, TRUE, l, m) : l \in BOOLEAN, m \in {Zero, Half, One}}
                 \cup {Params(c, d, TRUE, Half) : c, d \in BOOLEAN},
             {Meter})

GasNext == \E in \in GasInputs, commit \in BOOLEAN : ApplyMessage(in, commit)

GasSpec == GasInit /\ [][GasNext]_vars

---------------------------------------------------------------------------
\* HashSpec: the hash function of a context, asked for heights below, at and
\* above the height of the context, and beyond int64

\* the digests of headers: HashLength bytes, not all zero
Digests == [1..HashLength -> {0, 1}] \ {ZeroHash}
OnesDigest == [i \in 1..HashLength |-> 1]

Headers ==
    {NoHeader,
     [decodable |-> TRUE, validators |-> FALSE, digest |-> <<>>],
     [decodable |-> TRUE, validators |-> TRUE, digest |-> OnesDigest]}

HistoricalInfos ==
    {[found |-> FALSE, header |-> NoHeader]}
    \cup {[found |-> TRUE, header |-> hd] : hd \in Headers}

HashCtxs ==
    [blockHeight : 1..MaxHeight,
     headerHash : {<<>>} \cup Digests,
     header : Headers,
     hist : [0..(MaxHeight - 1) -> HistoricalInfos]]

HashHeights == 0..(MaxHeight + 1) \cup {MaxInt64 + 1}

HashInit ==
    /\ params = Params(TRUE, TRUE, TRUE, Half)
    /\ ledger = [k \in Keys |-> 0]
    /\ transient = [bloom |-> 0, logSize |-> 0, txIndex |-> 0, gasUsed |-> 0]
    /\ blockGasMeter = Meter
    /\ gasMeter = 0
    /\ pc = "idle"
    /\ txCount = 0
    /\ cumulative = <<>>
    /\ last = NoCall
    /\ hashCtx \in HashCtxs
    /\ hashReq = 0
    /\ hashRes = GetHashFn(hashCtx, 0)
    /\ ante = NoAnte

HashNext == \E height \in HashHeights : GetHash(height)

HashSpec == HashInit /\ [][HashNext]_vars

---------------------------------------------------------------------------
\* AnteSpec: the signature verification stage on transactions of up to
\* MaxMsgs messages, on every validation path

\* an Ethereum message signed for this chain or another one, with a
\* signature that recovers or not, arriving with an empty From or with the
\* From of the first address
EthMsgs ==
    [eth : {TRUE}, chainID : {ChainID, ChainID + 1}, validSig : BOOLEAN,
     signer : Addresses, from : {<<>>, Hex(1)}]

\* a message of another module, signed for this chain by the first address
BankMsg == [eth |-> FALSE, chainID |-> ChainID, validSig |-> TRUE, signer |-> 1,
            from |-> <<>>]

AnteTxs == UNION {[1..n -> EthMsgs \cup {BankMsg}] : n \in 0..MaxMsgs}

Modes == {"check", "recheck", "deliver"}

\* the rest of the ante chain deducts the fee or rejects the transaction
NextHandlers ==
    {[err |-> ErrNil, writes |-> ("balance" :> 1)],
     [err |-> ErrNil, writes |-> ("balance" :> 2)],
     [err |-> ErrNext, writes |-> EmptyWrites]}

AnteInit == InitWith({Params(TRUE, TRUE, TRUE, Half)}, {Meter})

AnteNext ==
    \E tx \in AnteTxs, mode \in Modes, simulate \in BOOLEAN, next \in NextHandlers :
        AnteHandle(tx, mode, simulate, next)

AnteSpec == AnteInit /\ [][AnteNext]_vars

---------------------------------------------------------------------------
(* Properties of ApplyTransaction, checked under Spec.  last holds the latest  *)
(* call: its input, what it returned and the state it started from.           *)

\* C1: after ApplyTransaction the parent ledger holds either every mutation
\* the execution made or none of them, never a part; the commit function of
\* the snapshot is called at most once, and the mutations are visible exactly
\* when it was called.
AtomicCommit ==
    last.op = "ApplyTransaction" =>
        LET mutations == last.exec.stateDB
            every == \A k \in DOMAIN mutations : ledger[k] = mutations[k]
            none == \A k \in DOMAIN mutations : ledger[k] = last.preLedger[k]
        IN  /\ last.commits <= 1
            /\ every \/ none
            /\ last.commits = 1 => every
            /\ last.commits = 0 => none
            /\ \A k \in (Keys \ DOMAIN mutations) \ {"balance"} :
                   ledger[k] = last.preLedger[k]

\* a transaction that wrote two storage slots has both of them in the ledger
AtomicCommitWitness ==
    /\ last.op = "ApplyTransaction"
    /\ last.err = ErrNil
    /\ last.commits = 1
    /\ Slots \subseteq DOMAIN last.exec.stateDB
    /\ \A k \in Slots : ledger[k] # last.preLedger[k]

\* C2, as stated: a transaction whose VM run reports an error always gets a
\* response without a pipeline error, with status failed, non-zero gasUsed and
\* no mutation visible; the snapshot is committed iff the VM reported no error.
VMErrorAlwaysReturnsResponse ==
    (last.op = "ApplyTransaction" /\ last.exec.vmRan) =>
        /\ last.in.vm.err =>
               /\ last.err = ErrNil
               /\ last.res.returned
               /\ last.receipt.status = ReceiptStatusFailed
               /\ last.res.gasUsed > 0
               /\ \A k \in DOMAIN last.exec.stateDB : ledger[k] = last.preLedger[k]
        /\ (last.commits = 1) <=> ~last.in.vm.err

\* C2, amended: when the VM run reports an error and the message execution
\* still returns its result, the receipt has status failed, gasUsed is
\* non-zero, no mutation is visible, and the response is returned without error
\* unless the gas refund or the transient gas update fails; whenever the
\* message execution returns a result the snapshot is committed iff the VM
\* reported no error, and it is never committed otherwise.
VMErrorDiscardsSnapshot ==
    (last.op = "ApplyTransaction" /\ last.exec.vmRan) =>
        /\ (last.in.vm.err /\ last.exec.err = ErrNil) =>
               /\ last.receipt.built
               /\ last.receipt.status = ReceiptStatusFailed
               /\ last.receipt.gasUsed > 0
               /\ \A k \in DOMAIN last.exec.stateDB : ledger[k] = last.preLedger[k]
               /\ (last.in.refundOk /\ last.in.addOk) =>
                      /\ last.err = ErrNil
                      /\ last.res.returned
                      /\ last.res.vmError
                      /\ last.res.gasUsed > 0
               /\ ~(last.in.refundOk /\ last.in.addOk) =>
                      last.err # ErrNil /\ ~last.res.returned
        /\ last.exec.err = ErrNil => ((last.commits = 1) <=> ~last.in.vm.err)
        /\ last.exec.err # ErrNil => last.commits = 0

\* a reverted creation: the response is returned, and the nonce the execution
\* set is not in the ledger
VMErrorDiscardsSnapshotWitness ==
    /\ last.op = "ApplyTransaction"
    /\ last.in.vm.err
    /\ last.in.msg.to = Nil
    /\ last.err = ErrNil
    /\ last.res.returned
    /\ last.commits = 0
    /\ last.exec.stateDB["nonce"] # last.preLedger["nonce"]
    /\ ledger["nonce"] = last.preLedger["nonce"]

\* C3: a failure of the configuration, of the message derivation or of the
\* message execution makes ApplyTransaction return an error and leaves the
\* parent ledger and every field of the transient block state as they were.
EarlyFailureChangesNothing ==
    (/\ last.op = "ApplyTransaction"
     /\ (~last.in.cfgOk \/ ~last.in.msgOk \/ last.exec.err # ErrNil)) =>
        /\ last.err # ErrNil
        /\ ~last.res.returned
        /\ ledger = last.preLedger
        /\ transient = last.preTransient

\* the execution ran the VM, which wrote storage, and then failed, in a block
\* that has applied a transaction before
EarlyFailureChangesNothingWitness ==
    /\ last.op = "ApplyTransaction"
    /\ last.exec.vmRan
    /\ last.exec.err # ErrNil
    /\ Slots \subseteq DOMAIN last.exec.stateDB
    /\ last.preTransient.txIndex > 0
    /\ last.preLedger["slot1"] # last.exec.stateDB["slot1"]

\* C4, as stated: a failure after a successful execution (the gas refund, the
\* transient gas update) leaves the transient block state either untouched or
\* wholly updated: transaction index and gas total move together.
LateFailureKeepsTransientWhole ==
    (/\ last.op = "ApplyTransaction"
     /\ last.exec.vmRan
     /\ last.exec.err = ErrNil
     /\ last.err # ErrNil) =>
        \/ transient = last.preTransient
        \/ /\ transient.txIndex = last.preTransient.txIndex + 1
           /\ transient.gasUsed = last.preTransient.gasUsed + last.exec.gasUsed

\* C5, as stated: when the gas refund fails, ApplyTransaction returns an error
\* and none of the mutations of the VM is visible in the parent ledger.
RefundFailureLeavesLedger ==
    (/\ last.op = "ApplyTransaction"
     /\ last.exec.vmRan
     /\ last.exec.err = ErrNil
     /\ ~last.in.refundOk) =>
        /\ last.err # ErrNil
        /\ ~last.res.returned
        /\ \A k \in DOMAIN last.exec.stateDB : ledger[k] = last.preLedger[k]

\* C6, as stated: once the VM has run for a contract creation, the nonce of
\* the sender in the ledger is the nonce of the message plus one, also when the
\* VM reports an error and the snapshot is discarded.
CreationNonceAfterApplication ==
    (/\ last.op = "ApplyTransaction"
     /\ last.in.msg.to = Nil
     /\ last.exec.vmRan
     /\ last.err = ErrNil) =>
        ledger["nonce"] = UAdd(last.in.msg.nonce, 1)

\* C7, as stated: the cumulativeGasUsed recorded for the transactions of a
\* block never exceeds the block gas limit and never decreases from one
\* transaction to the next.
CumulativeGasUsedMonotone ==
    \A i \in 1..Len(cumulative) :
        /\ cumulative[i] <= BlockGasLimit
        /\ i > 1 => cumulative[i] >= cumulative[i - 1]

\* C18: after an ApplyTransaction that returns without error the next
\* transaction index of the block is the index of the transaction plus one,
\* whatever the VM status and the number of logs; the block bloom and the next
\* log index change only when the transaction has a log: the bloom becomes
\* the bitwise OR of the previous block bloom and the bloom of the logs, the
\* next log index advances by the number of logs.
TransientIndexesAdvance ==
    (last.op = "ApplyTransaction" /\ last.err = ErrNil) =>
        LET logs == last.receipt.logs
            pre == last.preTransient
        IN  /\ last.receipt.transactionIndex = pre.txIndex
            /\ transient.txIndex = last.receipt.transactionIndex + 1
            /\ Len(logs) = 0 =>
                   transient.bloom = pre.bloom /\ transient.logSize = pre.logSize
            /\ Len(logs) > 0 =>
                   /\ transient.logSize = pre.logSize + Len(logs)
                   /\ \A i \in 1..BloomByteLength :
                          Bit(transient.bloom, BloomByteLength - i) = 1 <=>
                              \/ Bit(pre.bloom, BloomByteLength - i) = 1
                              \/ \E j \in 1..Len(logs) : logs[j] = i

\* the second transaction with a log, on a topic the block bloom did not have
TransientIndexesAdvanceWitness ==
    /\ last.op = "ApplyTransaction"
    /\ last.err = ErrNil
    /\ Len(last.receipt.logs) > 0
    /\ last.preTransient.bloom # 0
    /\ transient.bloom # last.preTransient.bloom
    /\ transient.logSize = 2
    /\ transient.txIndex = 2

\* C19: after an ApplyTransaction that returns without error the transient
\* gas total of the block is its value before the call plus the gasUsed of the
\* transaction, and the gas meter of the current transaction has been reset to
\* consume exactly that total; the transient total never decreases in a block.
TransientGasTotal ==
    /\ []((last.op = "ApplyTransaction" /\ last.err = ErrNil) =>
             /\ transient.gasUsed = last.preTransient.gasUsed + last.res.gasUsed
             /\ pc = "applied" => gasMeter = transient.gasUsed)
    /\ [][transient'.gasUsed >= transient.gasUsed]_vars

\* the second transaction of a block: the meter holds the gas of both
TransientGasTotalWitness ==
    /\ last.op = "ApplyTransaction"
    /\ last.err = ErrNil
    /\ pc = "applied"
    /\ last.preTransient.gasUsed > 0
    /\ last.res.gasUsed > 0
    /\ gasMeter = last.preTransient.gasUsed + last.res.gasUsed
    /\ transient.gasUsed = gasMeter

---------------------------------------------------------------------------
(* Properties of the message execution, checked under GasSpec *)

\* C8: the refund added back to the leftover gas never exceeds the gas used
\* before the refund divided by the refund quotient, 5 when London is active
\* in the chain configuration and 2 otherwise, nor the refund counter of the
\* run; the gas used after the refund is the gas used before it minus the
\* refund.
RefundCapped ==
    (last.op = "ApplyMessage" /\ last.exec.vmRan) =>
        LET quotient == IF params.london THEN RefundQuotientEIP3529 ELSE RefundQuotient
        IN  /\ last.exec.refund * quotient <= last.exec.gasBeforeRefund
            /\ last.exec.refund <= last.in.vm.refund
            /\ last.exec.temporaryGasUsed = last.exec.gasBeforeRefund - last.exec.refund

\* under London a refund counter above the cap is cut to a fifth of the gas used
RefundCappedWitness ==
    /\ last.op = "ApplyMessage"
    /\ last.err = ErrNil
    /\ params.london
    /\ last.exec.refund > 0
    /\ last.exec.refund = last.exec.gasBeforeRefund \div RefundQuotientEIP3529
    /\ last.in.vm.refund > last.exec.refund
    /\ last.exec.refund * RefundQuotient < last.exec.gasBeforeRefund

\* C9, as stated, with the product truncated to an integer as the code
\* truncates it: the gasUsed of a response is at least the gas limit times the
\* minimum gas multiplier, and is the gas the execution used (after the
\* refund) whenever that exceeds the product.
MinGasFloor ==
    (last.op = "ApplyMessage" /\ last.exec.vmRan /\ last.err = ErrNil) =>
        LET limit == last.in.msg.gasLimit
            used == last.exec.temporaryGasUsed
        IN  /\ last.res.gasUsed >= (limit * params.mult.num) \div params.mult.den
            /\ used * params.mult.den > limit * params.mult.num =>
                   last.res.gasUsed = used

\* C11: a call of the message executor with commit = false leaves the parent
\* ledger and the transient block state as they were, for every message and
\* every outcome: a response without VM error, a response with a VM error, an
\* error.
DiscardLeavesState ==
    (last.op = "ApplyMessage" /\ ~last.commit) =>
        /\ ledger = last.preLedger
        /\ transient = last.preTransient

\* a creation whose run wrote storage returned its response, and none of what
\* the StateDB holds is in the ledger
DiscardLeavesStateWitness ==
    /\ last.op = "ApplyMessage"
    /\ ~last.commit
    /\ last.err = ErrNil
    /\ ~last.res.vmError
    /\ Slots \subseteq DOMAIN last.exec.stateDB
    /\ \A k \in DOMAIN last.exec.stateDB : last.exec.stateDB[k] # ledger[k]
    /\ ledger = last.preLedger

\* C12: a message of an enabled kind whose gas limit is below its intrinsic
\* gas (the base cost of its kind plus the cost of its data) is rejected with
\* the intrinsic gas error before the VM runs and before any nonce or balance
\* changes, in the StateDB of the execution as well as in the ledger.
IntrinsicGasRejectsFirst ==
    (/\ last.op = "ApplyMessage"
     /\ last.in.cfgOk
     /\ IF last.in.msg.to = Nil THEN params.enableCreate ELSE params.enableCall
     /\ last.in.msg.gasLimit <
            (IF last.in.msg.to = Nil THEN TxGasContractCreation ELSE TxGas)
                + (last.in.msg.data * TxDataNonZeroGas)) =>
        /\ last.err = ErrIntrinsicGas
        /\ ~last.res.returned
        /\ ~last.exec.vmRan
        /\ last.exec.stateDB = EmptyWrites
        /\ last.exec.written = EmptyWrites
        /\ ledger = last.preLedger

\* a creation with the gas of a plain call, asked to commit, is rejected
IntrinsicGasRejectsFirstWitness ==
    /\ last.op = "ApplyMessage"
    /\ last.commit
    /\ last.in.msg.to = Nil
    /\ last.in.msg.gasLimit >= TxGas
    /\ last.err = ErrIntrinsicGas
    /\ last.exec.stateDB = EmptyWrites
    /\ ledger = last.preLedger

\* C13: with EnableCreate false every message without recipient is rejected
\* with CreateDisabled, with EnableCall false every message with a recipient
\* is rejected with CallDisabled, in both cases before the VM runs and before
\* anything changes in the StateDB or the ledger.
DisabledKindsRejected ==
    (last.op = "ApplyMessage" /\ last.in.cfgOk) =>
        LET untouched == /\ ~last.res.returned
                         /\ ~last.exec.vmRan
                         /\ last.exec.stateDB = EmptyWrites
                         /\ last.exec.written = EmptyWrites
                         /\ ledger = last.preLedger
        IN  /\ (~params.enableCreate /\ last.in.msg.to = Nil) =>
                   last.err = ErrCreateDisabled /\ untouched
            /\ (~params.enableCall /\ last.in.msg.to # Nil) =>
                   last.err = ErrCallDisabled /\ untouched

\* a creation with enough gas, asked to commit while calls are allowed, is
\* rejected with CreateDisabled
DisabledKindsRejectedWitness ==
    /\ last.op = "ApplyMessage"
    /\ last.commit
    /\ ~params.enableCreate
    /\ params.enableCall
    /\ last.in.msg.to = Nil
    /\ last.in.msg.gasLimit > TxGasContractCreation
    /\ last.err = ErrCreateDisabled
    /\ ledger = last.preLedger

\* C15: a call without data and with gas limit 21000, before London, whose
\* run is a plain transfer (no error, no logs, no refund), gets a response
\* without VM error, with gasUsed exactly 21000 and without logs, for every
\* minimum gas multiplier between 0 and 1.
PlainTransferGas ==
    (/\ last.op = "ApplyMessage"
     /\ last.in.cfgOk /\ last.in.commitOk
     /\ params.enableCall /\ ~params.london
     /\ params.mult.num <= params.mult.den
     /\ last.in.msg.to # Nil
     /\ last.in.msg.data = 0
     /\ last.in.msg.gasLimit = TxGas
     /\ ~last.in.vm.err /\ ~last.in.vm.fault
     /\ last.in.vm.logs = <<>>
     /\ last.in.vm.refund = 0) =>
        /\ last.err = ErrNil
        /\ last.res.returned
        /\ ~last.res.vmError
        /\ last.res.gasUsed = TxGas
        /\ last.res.logs = <<>>

\* the transfer under a multiplier of one half: the floor is below the gas used
PlainTransferGasWitness ==
    /\ last.op = "ApplyMessage"
    /\ ~params.london
    /\ params.mult = Half
    /\ last.in.msg.to # Nil
    /\ last.in.msg.data = 0
    /\ last.in.msg.gasLimit = TxGas
    /\ last.in.vm = WritingRun(EmptyWrites)
    /\ last.err = ErrNil
    /\ ~last.res.vmError
    /\ last.res.gasUsed = TxGas

GasOverflowRejected ==
    (/\ last.op = "ApplyMessage"
     /\ last.exec.vmRan
     /\ last.in.vm.fault) =>
        /\ last.err = ErrGasOverflow
        /\ ~last.res.returned
        /\ last.exec.leftoverGas > last.in.msg.gasLimit
        /\ ~last.exec.committed
        /\ last.exec.written = EmptyWrites
        /\ ledger = last.preLedger

\* a creation asked to commit, whose StateDB holds the new nonce, is refused
GasOverflowRejectedWitness ==
    /\ last.op = "ApplyMessage"
    /\ last.commit
    /\ last.in.vm.fault
    /\ last.in.msg.to = Nil
    /\ last.err = ErrGasOverflow
    /\ last.exec.stateDB["nonce"] # ledger["nonce"]
    /\ ledger = last.preLedger

\* C21: every response of ApplyMessageWithConfig has a gasUsed that is at most
\* the gas limit of the message, so that the unsigned subtraction gas limit -
\* gasUsed (the leftover gas of the executor, the amount ApplyTransaction
\* refunds) does not wrap around, for every gas limit, refund counter and
\* minimum gas multiplier.
GasUsedWithinLimit ==
    (last.op \in {"ApplyMessage", "ApplyTransaction"}
        /\ last.exec.vmRan /\ last.exec.err = ErrNil) =>
        LET limit == last.in.msg.gasLimit
        IN  /\ last.exec.gasUsed <= limit
            /\ USub(limit, last.exec.gasUsed) = limit - last.exec.gasUsed
            /\ last.exec.leftoverGas + last.exec.gasUsed = limit

\* the multiplier 1 lifts the gasUsed of a run that used less, with a refund,
\* to the whole gas limit: nothing is left over
GasUsedWithinLimitWitness ==
    /\ last.op = "ApplyMessage"
    /\ last.exec.vmRan
    /\ last.exec.err = ErrNil
    /\ params.mult = One
    /\ last.exec.refund > 0
    /\ last.exec.temporaryGasUsed < last.in.msg.gasLimit
    /\ last.exec.gasUsed = last.in.msg.gasLimit
    /\ last.exec.leftoverGas = 0

---------------------------------------------------------------------------
(* Properties of the signature verification stage, checked under AnteSpec.  *)
(* ante.tx holds the messages as they arrived, ante.msgs the messages as    *)
(* the stage left them, ante.ctx the context it returned or passed on.      *)

\* C14: the stage calls the next stage if and only if every message of the
\* transaction is an Ethereum message whose signature verifies under the
\* chain id of the configuration, on CheckTx, ReCheckTx and DeliverTx,
\* simulating or not; when the next stage runs the From of every message is
\* the recovered sender; when the stage rejects, the next stage does not run
\* and the ledger is unchanged.
SigStagePassesVerified ==
    ante.ran =>
        LET n == Len(ante.tx)
            verified == \A i \in 1..n :
                            /\ ante.tx[i].eth
                            /\ ante.tx[i].chainID = ChainID
                            /\ ante.tx[i].validSig
        IN  /\ ante.nextRan <=> verified
            /\ ante.nextRan =>
                   /\ ante.err = ErrNil
                   /\ Len(ante.msgs) = n
                   /\ \A i \in 1..n : ante.msgs[i].from = Hex(ante.tx[i].signer)
            /\ ~ante.nextRan =>
                   /\ ante.err # ErrNil
                   /\ ante.returned = ante.err
                   /\ ledger = ante.preLedger

\* a simulated ReCheckTx of two messages: the second arrived with the From of
\* another address, the stage set it and the next stage ran and wrote
SigStagePassesVerifiedWitness ==
    /\ ante.ran
    /\ ante.mode = "recheck"
    /\ ante.simulate
    /\ Len(ante.tx) = 2
    /\ ante.nextRan
    /\ ante.tx[2].from = Hex(1)
    /\ ante.msgs[2].from = Hex(2)
    /\ ledger # ante.preLedger

\* C20 as stated: when the signature verification of a message fails, the
\* context the stage returns carries no scaffold of that message.
ScaffoldOnlyAfterRecovery ==
    ante.ran =>
        \A k \in 1..Len(ante.tx) :
            (/\ \A j \in 1..(k - 1) :
                    /\ ante.tx[j].eth
                    /\ ante.tx[j].chainID = ChainID
                    /\ ante.tx[j].validSig
             /\ ante.tx[k].eth
             /\ ante.tx[k].chainID # ChainID \/ ~ante.tx[k].validSig)
            => ante.ctx.ethTx # k

\* C20, amended: the stage puts the scaffold of an Ethereum message in the
\* context before it verifies the signature of the message: when the
\* verification of a message fails, the context the stage returns carries the
\* scaffold of that message, the From of the message is as it arrived and the
\* next stage does not run.
ScaffoldBeforeRecovery ==
    ante.ran =>
        \A k \in 1..Len(ante.tx) :
            (/\ \A j \in 1..(k - 1) :
                    /\ ante.tx[j].eth
                    /\ ante.tx[j].chainID = ChainID
                    /\ ante.tx[j].validSig
             /\ ante.tx[k].eth
             /\ ante.tx[k].chainID # ChainID \/ ~ante.tx[k].validSig)
            => /\ ante.ctx.ethTx = k
               /\ ante.msgs[k].from = ante.tx[k].from
               /\ ~ante.nextRan
               /\ ante.err \in {ErrInvalidChainID, ErrorInvalidSigner}

\* the signature of the second message does not recover: the context
\* returned with the error carries the scaffold of the second message
ScaffoldBeforeRecoveryWitness ==
    /\ ante.ran
    /\ Len(ante.tx) = 2
    /\ ante.tx[1].eth /\ ante.tx[1].chainID = ChainID /\ ante.tx[1].validSig
    /\ ante.tx[2].eth /\ ante.tx[2].chainID = ChainID /\ ~ante.tx[2].validSig
    /\ ante.err = ErrorInvalidSigner
    /\ ante.ctx.ethTx = 2
    /\ ~ante.nextRan

---------------------------------------------------------------------------
(* Properties of the block hash function, checked under HashSpec *)

\* C10: the hash function of a context returns the header hash of the
\* context, not zero, for the current height when that hash is set; the zero
\* hash for a height above the current one; and the zero hash for a height
\* below it whose historical info is missing.
BlockHashCases ==
    /\ (hashReq = hashCtx.blockHeight /\ Len(hashCtx.headerHash) # 0) =>
           hashRes = hashCtx.headerHash /\ hashRes # ZeroHash
    /\ hashReq > hashCtx.blockHeight => hashRes = ZeroHash
    /\ (hashReq < hashCtx.blockHeight /\ ~hashCtx.hist[hashReq].found) =>
           hashRes = ZeroHash

\* the hash of the current block, for a context at a height above the first
\* whose header hash is set
BlockHashCasesWitness ==
    /\ hashReq = hashCtx.blockHeight
    /\ hashReq > 1
    /\ Len(hashCtx.headerHash) # 0
    /\ hashRes = hashCtx.headerHash
    /\ hashRes # ZeroHash

====
